---------------------------- MODULE Spec2Model ----------------------------
(***************************************************************************)
(* A model of package lex (goulash/lex): the Lexer (src/lexer.go), whose   *)
(* Run method drives caller-supplied state functions in one goroutine and  *)
(* hands tokens over an unbuffered channel to a single consumer, and the   *)
(* one-token lookahead Reader (src/reader.go) the consumer may put on top. *)
(*                                                                         *)
(* Strings are sequences of bytes (numbers 0..255); the Go slice           *)
(* input[a:b] (0-based, half-open) is SubSeq(input, a+1, b).               *)
(***************************************************************************)
EXTENDS Integers, Sequences, FiniteSets, TLC

VARIABLES
    input,       \* Lexer.input
    width,       \* Lexer.width
    base,        \* Lexer.base
    pos,         \* Lexer.pos
    lastPos,     \* Lexer.lastPos
    tokens,      \* Lexer.tokens: the channel
    state,       \* Run's local variable state: "fn" (a StateFn) or "nil"
    dpc,         \* where the lexing goroutine is
    buf,         \* Reader.buf: <<>> is nil, <<t>> points to t
    cpc,         \* where the consumer (the parser's goroutine) is
    ret,         \* the token the consumer's last completed call returned
                 \* or, for Reader.Backup, was given
    lastOp,      \* the consumer's last completed call
    prevOp,      \* the one before it
    panicked,    \* a goroutine panicked: the program is dead
    fresh,       \* history: Next ran and Backup has not run since
    sent,        \* history: the tokens Emit/Errorf passed to a channel send
    received,    \* history: the tokens a channel receive delivered
    returned,    \* history: the values NextToken returned
    closedReads, \* history: how many of them were read off the closed channel
    closes,      \* history: how often close(l.tokens) ran
    nilReturns,  \* history: 1 once a state function has returned nil
    errIdx,      \* history: index in sent of the token of the Errorf whose
                 \*          result the state function returned, or 0
    call,        \* the run primitive (AcceptRun, ...) under way: its name,
                 \*          its argument, its local n and the pos it began at
    result,      \* the scanner call that returned last and what it returned
    backable,    \* history: Next ran and neither Backup, Emit nor Ignore
                 \*          has run since
    misuse,      \* history: the worst call of Backup so far: "none", "late"
                 \*          (after an Emit or Ignore) or "double" (no Next
                 \*          since the last Backup, or none at all)
    ignored,     \* history: the bytes of input (1-based) Ignore skipped
    expect       \* Reader.Expect: its argument types, the types not yet
                 \*          read for, and its locals tokens and ok

vars == <<input, width, base, pos, lastPos, tokens, state, dpc, buf, cpc, ret,
          lastOp, prevOp, panicked, fresh, sent, received, returned, closedReads,
          closes, nilReturns, errIdx, call, result, backable, misuse, ignored,
          expect>>

lexerVars == <<input, width, base, pos>>
driverVars == <<state, dpc, fresh, nilReturns, errIdx>>
scanVars == <<call, result, backable, misuse, ignored>>
readerVars == <<buf, cpc, ret, lastOp, prevOp, expect>>
histVars == <<sent, received, returned, closedReads, closes>>

---------------------------------------------------------------------------
(* Bounds of the model.                                                    *)

\* The tokens a run sends at most.
MaxTokens == 2
\* The reads of the closed channel a run makes at most.
MaxClosedReads == 2
\* How far below 0 calls of Backup take pos at most.
MaxBelow == 2

---------------------------------------------------------------------------
(* Constants of the program.                                               *)

EOF == -1
TypeError == 0
TypeEOF == 1
\* The first type a caller defines: (1+lex.TypeEOF)+iota.
TypeUser == 2
\* utf8.RuneError, what DecodeRuneInString yields for an invalid encoding.
RuneError == 65533

\* The types the model's state functions pass to Emit.
Types == {TypeEOF, TypeUser}

\* The inputs of the model's runs: "a" and the two bytes of U+00E9.
StreamInputs == {<<97>>, <<195, 169>>}

Token(t, p, v) == [type |-> t, pos |-> p, value |-> v]

\* The zero value of Token, what a receive from a closed channel yields.
ZeroToken == Token(0, 0, <<>>)

\* input[a:b]
Slice(s, a, b) == SubSeq(s, a + 1, b)

---------------------------------------------------------------------------
(* fmt.Sprintf, for the formats and arguments the model's state functions  *)
(* pass to Errorf: literal bytes and the verb %d (bytes 37, 100) with      *)
(* integer arguments 0..9.                                                 *)

\* "%!d(MISSING)"
MissingD == <<37, 33, 100, 40, 77, 73, 83, 83, 73, 78, 71, 41>>
\* "%!(EXTRA " and "int=" and ", " and ")"
ExtraOpen == <<37, 33, 40, 69, 88, 84, 82, 65, 32>>
ExtraInt == <<105, 110, 116, 61>>
ExtraSep == <<44, 32>>
ExtraClose == <<41>>

Digit(n) == <<48 + n>>

RECURSIVE ExtraArgs(_)
ExtraArgs(args) ==
    IF args = <<>> THEN <<>>
    ELSE ExtraInt \o Digit(Head(args))
         \o (IF Tail(args) = <<>> THEN <<>> ELSE ExtraSep \o ExtraArgs(Tail(args)))

RECURSIVE SprintfFrom(_, _)
SprintfFrom(format, args) ==
    IF format = <<>>
    THEN IF args = <<>> THEN <<>> ELSE ExtraOpen \o ExtraArgs(args) \o ExtraClose
    ELSE IF Head(format) = 37 /\ Len(format) >= 2 /\ format[2] = 100
         THEN IF args = <<>>
              THEN MissingD \o SprintfFrom(Tail(Tail(format)), args)
              ELSE Digit(Head(args)) \o SprintfFrom(Tail(Tail(format)), Tail(args))
         ELSE <<Head(format)>> \o SprintfFrom(Tail(format), args)

Sprintf(format, args) == SprintfFrom(format, args)

\* The call of Errorf the model's state functions make: Errorf("e%d", 7).
ErrorfCalls == {<<<<101, 37, 100>>, <<7>>>>}

---------------------------------------------------------------------------
(* utf8.DecodeRuneInString on a non-empty string of bytes below 0xE0:     *)
(* ASCII, a two-byte sequence, or RuneError of width 1.                    *)

DecodeRuneInString(s) ==
    IF s[1] < 128 THEN [r |-> s[1], w |-> 1]
    ELSE IF s[1] >= 194 /\ s[1] <= 223 /\ Len(s) >= 2 /\ s[2] >= 128 /\ s[2] <= 191
         THEN [r |-> (s[1] - 192) * 64 + (s[2] - 128), w |-> 2]
         ELSE [r |-> RuneError, w |-> 1]

---------------------------------------------------------------------------
(* A Go channel of Tokens: buf holds the values sent and not yet received  *)
(* (at most cap of them), sendq the value of a sender that waits because   *)
(* buf is full.  With cap 0 every send waits for its receive.              *)

\* Mutant: make(chan Token, 1), a buffered channel.
MakeChanBuffered == [buf |-> <<>>, cap |-> 1, sendq |-> <<>>, closed |-> FALSE]

\* make(chan Token)
MakeChan == [buf |-> <<>>, cap |-> 0, sendq |-> <<>>, closed |-> FALSE]

\* Mutant: a send never waits for its receive.
ChanSendNoWait(ch) == FALSE

\* ch <- t: whether the sender has to wait.
ChanSendBlocks(ch) == Len(ch.buf) >= ch.cap

ChanSend(ch, t) ==
    IF ChanSendBlocks(ch)
    THEN [ch EXCEPT !.sendq = Append(@, t)]
    ELSE [ch EXCEPT !.buf = Append(@, t)]

\* Mutant: the channel is left open.
ChanCloseNot(ch) == ch

\* close(ch)
ChanClose(ch) == [ch EXCEPT !.closed = TRUE]

\* <-ch: a value is there to receive.
ChanRecvOk(ch) == ch.buf # <<>> \/ ch.sendq # <<>>

\* <-ch completes: a value is there, or the channel is closed.
ChanRecvReady(ch) == ChanRecvOk(ch) \/ ch.closed

\* Mutant: off the closed channel the receiver gets an EOF token.
ChanRecvValueEOF(ch) ==
    IF ch.buf # <<>> THEN Head(ch.buf)
    ELSE IF ch.sendq # <<>> THEN Head(ch.sendq)
    ELSE Token(TypeEOF, 0, <<>>)

\* <-ch: the value received, the zero value off the closed channel.
ChanRecvValue(ch) ==
    IF ch.buf # <<>> THEN Head(ch.buf)
    ELSE IF ch.sendq # <<>> THEN Head(ch.sendq)
    ELSE ZeroToken

\* <-ch: the receive lets the waiting sender go on.
ChanRecvWakes(ch) == ch.sendq # <<>>

\* Mutant: the receive leaves the value where it was.
ChanAfterRecvKeep(ch) == ch

\* <-ch: the channel after the receive.
ChanAfterRecv(ch) ==
    IF ch.buf # <<>>
    THEN IF ch.sendq # <<>>
         THEN [ch EXCEPT !.buf = Append(Tail(@), Head(ch.sendq)), !.sendq = Tail(@)]
         ELSE [ch EXCEPT !.buf = Tail(@)]
    ELSE IF ch.sendq # <<>> THEN [ch EXCEPT !.sendq = Tail(@)]
    ELSE ch

---------------------------------------------------------------------------
(* New(name, input); the Reader is NewReader(l).                           *)

\* No run primitive is under way, no scanner call has returned, and Expect
\* has not been called.
NoCall == [op |-> "none", arg |-> <<>>, n |-> 0, from |-> 0]
NoResult == [op |-> "none", val |-> 0]
NoExpect == [types |-> <<>>, rest |-> <<>>, tokens |-> <<>>, ok |-> TRUE]

InitWith(inputs) ==
    /\ input \in inputs
    /\ width = 0
    /\ base = 0
    /\ pos = 0
    /\ lastPos = 0
    /\ tokens = MakeChan
    /\ state = "fn"
    /\ dpc = "new"
    /\ buf = <<>>
    /\ cpc = "idle"
    /\ ret = ZeroToken
    /\ lastOp = "none"
    /\ prevOp = "none"
    /\ panicked = FALSE
    /\ fresh = FALSE
    /\ sent = <<>>
    /\ received = <<>>
    /\ returned = <<>>
    /\ closedReads = 0
    /\ closes = 0
    /\ nilReturns = 0
    /\ errIdx = 0
    /\ call = NoCall
    /\ result = NoResult
    /\ backable = FALSE
    /\ misuse = "none"
    /\ ignored = {}
    /\ expect = NoExpect

Init == InitWith(StreamInputs)

---------------------------------------------------------------------------
(* The lexing goroutine: Run and the state functions it calls.  A state    *)
(* function is any sequence of Lexer calls followed by a return; the model *)
(* lets it choose each call freely, except that it calls Backup at most    *)
(* once per Next, as Backup's documentation demands.                       *)

Alive == ~panicked

\* go l.Run(fn), with fn a state function: state := fn.
RunStart ==
    /\ Alive /\ dpc = "new"
    /\ dpc' = "loop"
    /\ UNCHANGED <<lexerVars, lastPos, tokens, state, fresh, nilReturns, errIdx,
                   scanVars, readerVars, panicked, histVars>>

\* Mutant: the loop never runs, Run closes at once.
LoopTestNever(s) == FALSE

\* The loop's test state != nil.
LoopTest(s) == s # "nil"

\* for ...; state != nil; { state = state(l) }: the call of state(l).
RunCall ==
    /\ Alive /\ dpc = "loop" /\ LoopTest(state)
    /\ dpc' = "fn"
    /\ UNCHANGED <<lexerVars, lastPos, tokens, state, fresh, nilReturns, errIdx,
                   scanVars, readerVars, panicked, histVars>>

\* The loop ends and Run closes the channel: close(l.tokens).
RunClose ==
    /\ Alive /\ dpc = "loop" /\ ~LoopTest(state)
    /\ tokens' = ChanClose(tokens)
    /\ closes' = closes + 1
    /\ dpc' = "done"
    /\ UNCHANGED <<lexerVars, lastPos, state, fresh, nilReturns, errIdx,
                   scanVars, readerVars, panicked, sent, received, returned,
                   closedReads>>

\* A state function returns s, a state function or nil: state = state(l).
StReturn(s) ==
    /\ Alive /\ dpc = "fn"
    /\ state' = s
    /\ nilReturns' = IF s = "nil" THEN 1 ELSE nilReturns
    /\ dpc' = "loop"
    /\ UNCHANGED <<lexerVars, lastPos, tokens, fresh, errIdx,
                   scanVars, readerVars, panicked, histVars>>

\* A goroutine panics: the program is dead.
Panic ==
    /\ panicked' = TRUE
    /\ UNCHANGED <<lexerVars, lastPos, tokens, driverVars, scanVars, readerVars,
                   histVars>>

\* s[a:b] panics: slice bounds out of range.
SlicePanics(s, a, b) == a < 0 \/ b < a \/ b > Len(s)

\* Lexer.Next panics in l.input[l.pos:], which it reaches with pos below
\* len(l.input).
NextPanics == pos < Len(input) /\ SlicePanics(input, pos, Len(input))

\* Lexer.Next: the width it records and the rune it returns.
NextWidth ==
    IF pos >= Len(input) THEN 0
    ELSE DecodeRuneInString(Slice(input, pos, Len(input))).w

NextRune ==
    IF pos >= Len(input) THEN EOF
    ELSE DecodeRuneInString(Slice(input, pos, Len(input))).r

\* Lexer.Next
LexerNext ==
    /\ Alive /\ dpc = "fn"
    /\ IF NextPanics THEN Panic
       ELSE /\ width' = NextWidth
            /\ pos' = pos + NextWidth
            /\ fresh' = TRUE
            /\ backable' = TRUE
            /\ result' = [op |-> "Next", val |-> NextRune]
            /\ UNCHANGED <<input, base, lastPos, tokens, state, dpc, nilReturns,
                           errIdx, call, misuse, ignored, readerVars, panicked,
                           histVars>>

\* Lexer.Peek: r := l.Next(); l.Backup(); return r.
LexerPeek ==
    /\ Alive /\ dpc = "fn"
    /\ IF NextPanics THEN Panic
       ELSE /\ width' = NextWidth
            /\ pos' = (pos + NextWidth) - NextWidth
            /\ fresh' = FALSE
            /\ backable' = FALSE
            /\ result' = [op |-> "Peek", val |-> NextRune]
            /\ UNCHANGED <<input, base, lastPos, tokens, state, dpc, nilReturns,
                           errIdx, call, misuse, ignored, readerVars, panicked,
                           histVars>>

\* Lexer.Backup: l.pos -= l.width.
LexerBackup ==
    /\ Alive /\ dpc = "fn" /\ pos - width >= -MaxBelow
    /\ pos' = pos - width
    /\ fresh' = FALSE
    /\ backable' = FALSE
    /\ misuse' = IF ~fresh THEN "double"
                 ELSE IF ~backable /\ misuse = "none" THEN "late"
                 ELSE misuse
    /\ UNCHANGED <<input, width, base, lastPos, tokens, state, dpc, nilReturns,
                   errIdx, call, result, ignored, readerVars, panicked, histVars>>

\* The state functions of a run that ends well call Backup only to undo the
\* Next before it: straight after it, or with calls in between that leave
\* base alone.
StBackup == backable /\ LexerBackup

\* Lexer.Ignore: l.base = l.pos.
Ignore ==
    /\ Alive /\ dpc = "fn"
    /\ base' = pos
    /\ backable' = FALSE
    /\ ignored' = ignored \cup ((base + 1)..pos)
    /\ UNCHANGED <<input, width, pos, lastPos, tokens, state, dpc, fresh, nilReturns,
                   errIdx, call, result, misuse, readerVars, panicked, histVars>>

\* Lexer.Value: l.input[l.base:l.pos]
Value == Slice(input, base, pos)

\* Lexer.Len: l.base - l.pos.
LexerLen ==
    /\ Alive /\ dpc = "fn"
    /\ result' = [op |-> "Len", val |-> base - pos]
    /\ UNCHANGED <<lexerVars, lastPos, tokens, driverVars, call, backable, misuse,
                   ignored, readerVars, panicked, histVars>>

\* strings.HasPrefix(s, prefix)
HasPrefixAny(s, prefix) == prefix = <<>> \/ (s # <<>> /\ s[1] = prefix[1])

StringsHasPrefix(s, prefix) ==
    Len(s) >= Len(prefix) /\ SubSeq(s, 1, Len(prefix)) = prefix

\* Lexer.HasPrefix: strings.HasPrefix(l.input[l.pos:], s)
HasPrefix(s) == StringsHasPrefix(Slice(input, pos, Len(input)), s)

\* Lexer.Consume
Consume(s) ==
    /\ Alive /\ dpc = "fn"
    /\ IF SlicePanics(input, pos, Len(input)) THEN Panic
       ELSE /\ pos' = IF HasPrefix(s) THEN pos + Len(s) ELSE pos
            /\ result' = [op |-> "Consume", val |-> HasPrefix(s)]
            /\ UNCHANGED <<input, width, base, lastPos, tokens, driverVars, call,
                           backable, misuse, ignored, readerVars, panicked,
                           histVars>>

\* strings.IndexRune(s, r): the byte index of the first r in s, or -1; a
\* rune that is no valid code point, as EOF, is in no string.
RECURSIVE IndexRuneFrom(_, _, _)
IndexRuneFrom(s, r, i) ==
    IF i >= Len(s) THEN -1
    ELSE LET d == DecodeRuneInString(Slice(s, i, Len(s)))
         IN  IF d.r = r THEN i ELSE IndexRuneFrom(s, r, i + d.w)

IndexRune(s, r) == IF r < 0 THEN -1 ELSE IndexRuneFrom(s, r, 0)

\* f(r), for a function f the caller passes to AcceptFunc or AcceptFuncRun:
\* f is given by the runes it holds of.
Holds(f, r) == \E i \in 1..Len(f) : f[i] = r

\* The tests of the Accept methods on the rune r that Next returned.
AcceptTest(valid, r) == IndexRune(valid, r) >= 0
AcceptFuncTest(f, r) == Holds(f, r)
AcceptButTest(invalid, r) == IndexRune(invalid, r) < 0

Qualifies(op, arg, r) ==
    CASE op \in {"Accept", "AcceptRun"} -> AcceptTest(arg, r)
      [] op \in {"AcceptFunc", "AcceptFuncRun"} -> AcceptFuncTest(arg, r)
      [] op \in {"AcceptBut", "AcceptButRun"} -> AcceptButTest(arg, r)

\* Accept, AcceptFunc and AcceptBut: if test(l.Next()) { return true };
\* l.Backup(); return false.
AcceptOne(op, arg) ==
    /\ Alive /\ dpc = "fn"
    /\ IF NextPanics THEN Panic
       ELSE /\ width' = NextWidth
            /\ pos' = IF Qualifies(op, arg, NextRune) THEN pos + NextWidth
                      ELSE (pos + NextWidth) - NextWidth
            /\ fresh' = Qualifies(op, arg, NextRune)
            /\ backable' = Qualifies(op, arg, NextRune)
            /\ result' = [op |-> op, val |-> Qualifies(op, arg, NextRune)]
            /\ UNCHANGED <<input, base, lastPos, tokens, state, dpc, nilReturns,
                           errIdx, call, misuse, ignored, readerVars, panicked,
                           histVars>>

Accept(valid) == AcceptOne("Accept", valid)
AcceptFunc(f) == AcceptOne("AcceptFunc", f)
AcceptBut(invalid) == AcceptOne("AcceptBut", invalid)

\* AcceptRun, AcceptFuncRun and AcceptButRun are entered: var n int.
RunBegin(op, arg) ==
    /\ Alive /\ dpc = "fn"
    /\ dpc' = "run"
    /\ call' = [op |-> op, arg |-> arg, n |-> 0, from |-> pos]
    /\ UNCHANGED <<lexerVars, lastPos, tokens, state, fresh, nilReturns, errIdx,
                   result, backable, misuse, ignored, readerVars, panicked,
                   histVars>>

AcceptRun(valid) == RunBegin("AcceptRun", valid)
AcceptFuncRun(f) == RunBegin("AcceptFuncRun", f)
AcceptButRun(invalid) == RunBegin("AcceptButRun", invalid)

\* The test of the loop for test(l.Next()) { ... }.
RunTest == Qualifies(call.op, call.arg, NextRune)

\* The loop's Next panics.
RunPanic ==
    /\ Alive /\ dpc = "run" /\ NextPanics
    /\ Panic

\* The test holds of the rune Next returned: n += l.width.
RunIter ==
    /\ Alive /\ dpc = "run" /\ ~NextPanics /\ RunTest
    /\ width' = NextWidth
    /\ pos' = pos + NextWidth
    /\ call' = [call EXCEPT !.n = @ + NextWidth]
    /\ fresh' = TRUE
    /\ backable' = TRUE
    /\ UNCHANGED <<input, base, lastPos, tokens, state, dpc, nilReturns, errIdx,
                   result, misuse, ignored, readerVars, panicked, histVars>>

\* The test fails: l.Backup(); return n.
RunExit ==
    /\ Alive /\ dpc = "run" /\ ~NextPanics /\ ~RunTest
    /\ width' = NextWidth
    /\ pos' = (pos + NextWidth) - NextWidth
    /\ fresh' = FALSE
    /\ backable' = FALSE
    /\ result' = [op |-> call.op, val |-> call.n]
    /\ call' = NoCall
    /\ dpc' = "fn"
    /\ UNCHANGED <<input, base, lastPos, tokens, state, nilReturns, errIdx,
                   misuse, ignored, readerVars, panicked, histVars>>

\* Token{t, l.base, l.input[l.base:l.pos]}
EmitToken(t) == Token(t, base, Slice(input, base, pos))

\* Token{TypeError, l.base, fmt.Sprintf(format, args...)}
ErrorfToken(format, args) == Token(TypeError, base, Sprintf(format, args))

\* l.tokens <- t, in Emit and in Errorf: the goroutine goes on at once
\* (to after) or waits in the send (at waiting).
Send(t, waiting, after) ==
    /\ tokens' = ChanSend(tokens, t)
    /\ sent' = Append(sent, t)
    /\ dpc' = IF ChanSendBlocks(tokens) THEN waiting ELSE after
    /\ UNCHANGED <<lexerVars, lastPos, state, fresh, nilReturns, errIdx,
                   scanVars, readerVars, panicked, received, returned,
                   closedReads, closes>>

\* Lexer.Emit up to its send.
EmitSend(t) ==
    /\ Alive /\ dpc = "fn" /\ Len(sent) < MaxTokens
    /\ IF SlicePanics(input, base, pos) THEN Panic
       ELSE Send(EmitToken(t), "emit", "emitted")

\* Lexer.Emit after its send: l.base = l.pos.
EmitDone ==
    /\ Alive /\ dpc = "emitted"
    /\ base' = pos
    /\ dpc' = "fn"
    /\ backable' = FALSE
    /\ UNCHANGED <<input, width, pos, lastPos, tokens, state, fresh, nilReturns,
                   errIdx, call, result, misuse, ignored, readerVars, panicked,
                   histVars>>

\* Lexer.Errorf up to its send.
ErrorfSend(format, args) ==
    /\ Alive /\ dpc = "fn" /\ Len(sent) < MaxTokens
    /\ Send(ErrorfToken(format, args), "errorf", "errorfed")

\* Mutant: Errorf returns a state function.
ErrorfResultFn == "fn"

\* What Errorf returns after its send: nil.
ErrorfResult == "nil"

\* Errorf has returned and the state function returns its result:
\* return l.Errorf(...).
StReturnErrorf ==
    /\ Alive /\ dpc = "errorfed"
    /\ state' = ErrorfResult
    /\ nilReturns' = IF ErrorfResult = "nil" THEN 1 ELSE nilReturns
    /\ errIdx' = Len(sent)
    /\ dpc' = "loop"
    /\ UNCHANGED <<lexerVars, lastPos, tokens, fresh,
                   scanVars, readerVars, panicked, histVars>>

\* Errorf has returned and the state function drops its result and goes on.
StDropErrorf ==
    /\ Alive /\ dpc = "errorfed"
    /\ dpc' = "fn"
    /\ UNCHANGED <<lexerVars, lastPos, tokens, state, fresh, nilReturns, errIdx,
                   scanVars, readerVars, panicked, histVars>>

---------------------------------------------------------------------------
(* The consumer: one goroutine that calls NextToken and Drain on the       *)
(* Lexer, or Peek, Next and Backup on the Reader, one call at a time, and  *)
(* may stop calling for good.                                              *)

\* Where the sender goes on once its send has completed: Emit's
\* l.base = l.pos, or Errorf's return nil.
AfterSend(pc) ==
    CASE pc = "emit" -> "emitted"
      [] pc = "errorf" -> "errorfed"
      [] OTHER -> pc

\* <-l.tokens, on both sides of the channel.
Receive ==
    /\ ChanRecvReady(tokens)
    /\ tokens' = ChanAfterRecv(tokens)
    /\ dpc' = IF ChanRecvWakes(tokens) THEN AfterSend(dpc) ELSE dpc
    /\ received' = IF ChanRecvOk(tokens) THEN Append(received, ChanRecvValue(tokens))
                   ELSE received

\* Lexer.NextToken from its receive on: t := <-l.tokens; l.lastPos = t.Pos;
\* return t.
NextTokenBody ==
    /\ Receive
    /\ lastPos' = ChanRecvValue(tokens).pos
    /\ returned' = Append(returned, ChanRecvValue(tokens))
    /\ closedReads' = IF ChanRecvOk(tokens) THEN closedReads ELSE closedReads + 1
    /\ UNCHANGED <<lexerVars, state, fresh, nilReturns, errIdx, scanVars, panicked,
                   sent, closes>>

\* Mutant: only a separator at the start is counted.
StringsCountFirst(s, c) == IF s # <<>> /\ Head(s) = c THEN 1 ELSE 0

\* strings.Count(s, sep) for a separator of one byte c.
RECURSIVE StringsCount(_, _)
StringsCount(s, c) ==
    IF s = <<>> THEN 0
    ELSE (IF Head(s) = c THEN 1 ELSE 0) + StringsCount(Tail(s), c)

\* strings.LastIndex(s, sep) for a separator of one byte c: the 0-based
\* index of the last c in s, or -1.
RECURSIVE StringsLastIndex(_, _)
StringsLastIndex(s, c) ==
    IF s = <<>> THEN -1
    ELSE IF s[Len(s)] = c THEN Len(s) - 1
    ELSE StringsLastIndex(SubSeq(s, 1, Len(s) - 1), c)

\* Lexer.LineNumber: 1 + strings.Count(l.input[:l.lastPos], "\n")
LineNumber == 1 + StringsCount(Slice(input, 0, lastPos), 10)

\* Lexer.ColumnNumber
ColumnNumber ==
    LET code == Slice(input, 0, lastPos)
        i == StringsLastIndex(code, 10)
    IN  IF i >= 0 THEN lastPos - i ELSE 1 + Len(code)

\* A call that may read the channel is begun only while the model's bound
\* on reads of the closed channel leaves room for its read.
MayRead == closedReads < MaxClosedReads

\* The consumer begins a call.
Call(op) ==
    /\ Alive /\ cpc = "idle"
    /\ cpc' = op
    /\ UNCHANGED <<lexerVars, lastPos, tokens, driverVars, scanVars, buf, ret,
                   lastOp, prevOp, expect, panicked, histVars>>

\* The call op returns t.
Return(op, t) ==
    /\ ret' = t
    /\ prevOp' = lastOp
    /\ lastOp' = op
    /\ cpc' = "idle"

CallNextToken == MayRead /\ Call("NextToken")
CallDrain == Call("Drain")
CallPeek == (buf # <<>> \/ MayRead) /\ Call("Peek")
CallNext == (buf # <<>> \/ MayRead) /\ Call("Next")

\* The consumer never calls again.
Stop == Call("stopped")

\* Lexer.NextToken, called by the consumer itself.
NextToken ==
    /\ Alive /\ cpc = "NextToken"
    /\ NextTokenBody
    /\ Return("NextToken", ChanRecvValue(tokens))
    /\ UNCHANGED <<buf, expect>>

\* Mutant: Drain receives one token and returns.
DrainAfterRecvOnce == "idle"

\* Where Drain goes on after a receive: for range, the next receive.
DrainAfterRecv == "Drain"

\* Lexer.Drain: for range l.tokens {}, one token received and dropped.
DrainRecv ==
    /\ Alive /\ cpc = "Drain" /\ ChanRecvOk(tokens)
    /\ Receive
    /\ cpc' = DrainAfterRecv
    /\ UNCHANGED <<lexerVars, lastPos, state, fresh, nilReturns, errIdx, scanVars,
                   buf, ret, lastOp, prevOp, expect, panicked, sent, returned,
                   closedReads, closes>>

\* Lexer.Drain: the range loop ends on the closed channel.
DrainReturn ==
    /\ Alive /\ cpc = "Drain" /\ ~ChanRecvOk(tokens) /\ tokens.closed
    /\ Return("Drain", ret)
    /\ UNCHANGED <<lexerVars, lastPos, tokens, driverVars, scanVars, buf, expect,
                   panicked, histVars>>

\* Mutant: Peek does not keep the token.
PeekBufNone(t) == <<>>

\* r.buf = &t
PeekBuf(t) == <<t>>

\* Reader.Peek with r.buf == nil: t := r.lex.NextToken(); r.buf = &t;
\* return *r.buf.
PeekPull ==
    /\ Alive /\ cpc = "Peek" /\ buf = <<>>
    /\ NextTokenBody
    /\ buf' = PeekBuf(ChanRecvValue(tokens))
    /\ Return("Peek", ChanRecvValue(tokens))
    /\ UNCHANGED expect

\* Reader.Peek with a token in r.buf: return *r.buf.
PeekBuffered ==
    /\ Alive /\ cpc = "Peek" /\ buf # <<>>
    /\ Return("Peek", buf[1])
    /\ UNCHANGED <<lexerVars, lastPos, tokens, driverVars, scanVars, buf, expect,
                   panicked, histVars>>

\* Reader.Next with a token in r.buf: t := r.buf; r.buf = nil; return *t.
NextBuffered ==
    /\ Alive /\ cpc = "Next" /\ buf # <<>>
    /\ Return("Next", buf[1])
    /\ buf' = <<>>
    /\ UNCHANGED <<lexerVars, lastPos, tokens, driverVars, scanVars, expect,
                   panicked, histVars>>

\* Reader.Next with r.buf == nil: return r.lex.NextToken().
NextPull ==
    /\ Alive /\ cpc = "Next" /\ buf = <<>>
    /\ NextTokenBody
    /\ Return("Next", ChanRecvValue(tokens))
    /\ UNCHANGED <<buf, expect>>

\* The tokens the consumer hands to Reader.Backup: the one its last call
\* returned, or one of its own making.
BackupTokens == {ret, Token(TypeUser, 0, <<97>>)}

\* Mutant: Backup overwrites a buffered token.
BackupNeverPanics(b) == FALSE

\* Whether Reader.Backup panics: r.buf != nil.
BackupPanics(b) == b # <<>>

\* Reader.Backup(t)
Backup(t) ==
    /\ Alive /\ cpc = "idle"
    /\ IF BackupPanics(buf)
       THEN /\ panicked' = TRUE
            /\ UNCHANGED <<buf, ret, lastOp, prevOp, cpc>>
       ELSE /\ buf' = <<t>>
            /\ Return("Backup", t)
            /\ UNCHANGED panicked
    /\ UNCHANGED <<lexerVars, lastPos, tokens, driverVars, scanVars, expect,
                   histVars>>

\* The types passed to Reader.Expect: none, and lists the stream may or may
\* may not match.
ExpectArgs == {<<>>, <<TypeUser, TypeUser>>, <<TypeUser, TypeEOF, TypeError>>}

\* Reader.Expect(types...) is called: tokens, ok := make([]Token, 0,
\* len(types)), true.
CallExpect(types) ==
    /\ Alive /\ cpc = "idle"
    /\ cpc' = "Expect"
    /\ expect' = [types |-> types, rest |-> types, tokens |-> <<>>, ok |-> TRUE]
    /\ UNCHANGED <<lexerVars, lastPos, tokens, driverVars, scanVars, buf, ret,
                   lastOp, prevOp, panicked, histVars>>

\* Mutant: Expect goes on after a token of another type.
ExpectNeverBreaks(arg, t) == FALSE

\* if arg.Type != t { ok = false; break }
ExpectBreaks(arg, t) == arg.type # t

\* The body of Expect's loop for the token arg that r.Next() returned:
\* tokens = append(tokens, arg), and the test of its type against t, the
\* first of the types left.
ExpectRead(arg) ==
    [expect EXCEPT !.tokens = Append(@, arg),
                   !.ok = IF ExpectBreaks(arg, Head(expect.rest)) THEN FALSE ELSE @,
                   !.rest = IF ExpectBreaks(arg, Head(expect.rest)) THEN <<>>
                            ELSE Tail(@)]

\* One round of Expect's loop whose r.Next() finds a token in r.buf.
ExpectBuffered ==
    /\ Alive /\ cpc = "Expect" /\ expect.rest # <<>> /\ buf # <<>>
    /\ buf' = <<>>
    /\ expect' = ExpectRead(buf[1])
    /\ UNCHANGED <<lexerVars, lastPos, tokens, driverVars, scanVars, cpc, ret,
                   lastOp, prevOp, panicked, histVars>>

\* One round of Expect's loop whose r.Next() calls r.lex.NextToken(); the
\* model's bound on reads of the closed channel applies.
ExpectPull ==
    /\ Alive /\ cpc = "Expect" /\ expect.rest # <<>> /\ buf = <<>>
    /\ ChanRecvOk(tokens) \/ MayRead
    /\ NextTokenBody
    /\ expect' = ExpectRead(ChanRecvValue(tokens))
    /\ UNCHANGED <<buf, cpc, ret, lastOp, prevOp>>

\* Expect's loop is over, by break or at the end of types: return tokens, ok.
ExpectReturn ==
    /\ Alive /\ cpc = "Expect" /\ expect.rest = <<>>
    /\ cpc' = "idle"
    /\ prevOp' = lastOp
    /\ lastOp' = "Expect"
    /\ UNCHANGED <<lexerVars, lastPos, tokens, driverVars, scanVars, buf, ret,
                   expect, panicked, histVars>>

---------------------------------------------------------------------------

Driver ==
    \/ RunStart
    \/ RunCall
    \/ RunClose
    \/ \E s \in {"fn", "nil"} : StReturn(s)
    \/ LexerNext
    \/ StBackup
    \/ Ignore
    \/ \E t \in Types : EmitSend(t)
    \/ EmitDone
    \/ \E c \in ErrorfCalls : ErrorfSend(c[1], c[2])
    \/ StReturnErrorf
    \/ StDropErrorf

\* A consumer that reads the Lexer directly.
LexConsumer ==
    \/ CallNextToken
    \/ CallDrain
    \/ Stop
    \/ NextToken
    \/ DrainRecv
    \/ DrainReturn

\* A consumer that reads through the Reader.
ReaderConsumer ==
    \/ CallPeek
    \/ CallNext
    \/ PeekPull
    \/ PeekBuffered
    \/ NextBuffered
    \/ NextPull
    \/ \E t \in BackupTokens : Backup(t)

\* The lexing goroutine and a consumer of the Lexer.
Next == Driver \/ LexConsumer

Spec == Init /\ [][Next]_vars

\* The steps the lexing goroutine takes on its own once it can, whatever
\* the state functions are.
DriverInternal ==
    \/ RunStart
    \/ RunCall
    \/ RunClose
    \/ EmitDone
    \/ StReturnErrorf
    \/ StDropErrorf

\* Spec with the two goroutines scheduled fairly: the runtime runs a
\* goroutine that can take a step, so the lexing goroutine takes its own
\* steps and a consumer inside Drain goes on receiving.  A consumer that is
\* between calls need not call again.  The state functions are such that one
\* of them eventually returns nil: whenever state functions keep running,
\* a return of nil happens.
FairSpec ==
    /\ Spec
    /\ WF_vars(DriverInternal)
    /\ SF_vars(StReturn("nil"))
    /\ WF_vars(DrainRecv)
    /\ WF_vars(DrainReturn)

\* The lexing goroutine and a consumer of the Reader.
ReaderStep == Driver \/ ReaderConsumer

ReaderSpec == Init /\ [][ReaderStep]_vars

\* A consumer that reads through Reader.Expect, and pushes tokens back.
ExpectConsumer ==
    \/ \E types \in ExpectArgs : CallExpect(types)
    \/ ExpectBuffered
    \/ ExpectPull
    \/ ExpectReturn
    \/ \E t \in BackupTokens : Backup(t)

ExpectStep == Driver \/ ExpectConsumer

ExpectSpec == Init /\ [][ExpectStep]_vars

---------------------------------------------------------------------------
(* The scanner under state functions that never return.  Three             *)
(* specifications: the cursor methods alone, with Backup called at any     *)
(* time; Next, Backup, Ignore and Emit with a consumer that calls          *)
(* NextToken again and again; and all of these methods and Errorf          *)
(* together.  In the last two Backup is called at most once per Next.      *)

\* The inputs of the cursor methods: "", "a\n", "ab\ncd" and "a" followed by
\* the two bytes of U+00E9.
ScanInputs == {<<>>, <<97, 10>>, <<97, 98, 10, 99, 100>>, <<97, 195, 169>>}

\* The inputs that are emitted: "ab\ncd" and "a" followed by U+00E9.
EmitInputs == {<<97, 98, 10, 99, 100>>, <<97, 195, 169>>}

\* The inputs all methods together run on: "a\n" and "a" followed by U+00E9.
LexInputs == {<<97, 10>>, <<97, 195, 169>>}

\* The strings passed to Consume: "", "a", "ab", "abc".
ConsumeArgs == {<<>>, <<97>>, <<97, 98>>, <<97, 98, 99>>}

\* The strings passed to Accept, AcceptRun, AcceptBut and AcceptButRun:
\* "ab" and "\n" followed by U+00E9.
RuneStrings == {<<97, 98>>, <<10, 195, 169>>}

\* The functions passed to AcceptFunc and AcceptFuncRun: one that holds of
\* 'a' and 'b', and one that holds of every rune but '\n', EOF included.
RuneFuncs == {<<97, 98>>, <<EOF, 97, 98, 99, 100, 233>>}

\* A state function that calls Backup at most once per Next.
FreshBackup == fresh /\ LexerBackup

\* The calls of the Accept methods and of the run primitives.
AcceptCalls ==
    \/ \E v \in RuneStrings : Accept(v)
    \/ \E f \in RuneFuncs : AcceptFunc(f)
    \/ \E v \in RuneStrings : AcceptBut(v)

RunCalls ==
    \/ \E v \in RuneStrings : AcceptRun(v)
    \/ \E f \in RuneFuncs : AcceptFuncRun(f)
    \/ \E v \in RuneStrings : AcceptButRun(v)

ScanInit == InitWith(ScanInputs)

ScanStep ==
    \/ RunStart
    \/ RunCall
    \/ LexerNext
    \/ LexerPeek
    \/ LexerBackup
    \/ Ignore
    \/ LexerLen
    \/ \E s \in ConsumeArgs : Consume(s)
    \/ AcceptCalls
    \/ RunCalls
    \/ RunPanic
    \/ RunIter
    \/ RunExit

ScanSpec == ScanInit /\ [][ScanStep]_vars

EmitInit == InitWith(EmitInputs)

EmitStep ==
    \/ RunStart
    \/ RunCall
    \/ LexerNext
    \/ FreshBackup
    \/ Ignore
    \/ EmitSend(TypeUser)
    \/ EmitDone
    \/ CallNextToken
    \/ NextToken

EmitSpec == EmitInit /\ [][EmitStep]_vars

LexInit == InitWith(LexInputs)

LexStep ==
    \/ RunStart
    \/ RunCall
    \/ LexerNext
    \/ LexerPeek
    \/ FreshBackup
    \/ Ignore
    \/ \E s \in ConsumeArgs : Consume(s)
    \/ AcceptCalls
    \/ RunCalls
    \/ RunIter
    \/ RunExit
    \/ EmitSend(TypeUser)
    \/ EmitDone
    \/ \E c \in ErrorfCalls : ErrorfSend(c[1], c[2])
    \/ StDropErrorf
    \/ CallNextToken
    \/ NextToken

LexSpec == LexInit /\ [][LexStep]_vars

---------------------------------------------------------------------------
(* The claims.                                                             *)

IsPrefix(s, t) == Len(s) <= Len(t) /\ s = SubSeq(t, 1, Len(s))

\* The values NextToken returned from the stream, and the zero values it
\* returned off the closed channel after them.
StreamReturned == SubSeq(returned, 1, Len(returned) - closedReads)
ClosedReturned == SubSeq(returned, Len(returned) - closedReads + 1, Len(returned))

\* The lexing goroutine waits in the send of Emit or Errorf.
InSend == dpc \in {"emit", "errorf"}

\* C1: in every state the tokens NextToken has returned from the stream
\* are, in order, an initial part of the tokens Emit and Errorf have sent:
\* none is reordered, duplicated or dropped.  (What NextToken returns off
\* the closed channel is no token of the stream: it is the zero value, and
\* comes after all of them.)
C1_InOrder ==
    /\ closedReads <= Len(returned)
    /\ IsPrefix(StreamReturned, sent)
    /\ \A i \in 1..Len(ClosedReturned) : ClosedReturned[i] = ZeroToken
    /\ IsPrefix(received, sent)

\* Two different tokens were sent and NextToken has returned both.
C1_Witness ==
    /\ Len(sent) = 2 /\ sent[1] # sent[2]
    /\ returned = sent /\ closedReads = 0

\* C2: at most one token is sent and not yet received, and while one is
\* the lexing goroutine waits in that send: it is the token the send holds,
\* Emit has not moved base past it, and no step of the goroutine changes
\* the scanner, the state function or the tokens sent.
C2_InFlight == Len(sent) - Len(received)

C2_Rendezvous ==
    /\ [](/\ C2_InFlight \in {0, 1}
          /\ C2_InFlight = 1 =>
                /\ InSend
                /\ tokens.sendq = <<sent[Len(sent)]>>
                /\ tokens.buf = <<>>
                /\ base = sent[Len(sent)].pos
          /\ C2_InFlight = 0 => tokens.sendq = <<>> /\ tokens.buf = <<>> /\ ~InSend)
    /\ [][C2_InFlight = 1 /\ C2_InFlight' = 1 =>
            UNCHANGED <<lexerVars, driverVars, sent, tokens>>]_vars

\* The goroutine waits in Emit with its second token while the consumer
\* has received only the first.
C2_Witness ==
    /\ dpc = "emit" /\ Len(sent) = 2 /\ Len(received) = 1
    /\ pos > base

C4_DrainEnds ==
    (cpc = "Drain") ~>
        (/\ cpc = "idle" /\ lastOp = "Drain"
         /\ dpc = "done" /\ tokens.closed /\ received = sent)

\* Drain has returned after the consumer read an Error token with
\* NextToken and left a second token unread.
C4_Witness ==
    /\ cpc = "idle" /\ lastOp = "Drain" /\ prevOp = "NextToken"
    /\ Len(returned) = 1 /\ returned[1].type = TypeError
    /\ Len(received) = 2 /\ tokens.closed

\* C5: once the consumer has stopped calling, a token sent and not
\* received keeps the lexing goroutine in the send of Emit or Errorf for
\* good: Run has not returned, the channel is not closed, and no step of
\* the program is possible any more.
C5_StoppedBlocks ==
    (cpc = "stopped" /\ Len(sent) > Len(received)) =>
        /\ InSend /\ dpc # "done"
        /\ ~tokens.closed
        /\ ~ENABLED Next

\* The consumer stopped after one token and the goroutine waits in Errorf
\* with the second.
C5_Witness ==
    /\ cpc = "stopped" /\ dpc = "errorf"
    /\ Len(sent) = 2 /\ Len(received) = 1

\* The calls that read the stream.
Reads == {"NextToken", "Peek", "Next"}

\* C6: once Run has closed the channel, a read never blocks: a call of
\* NextToken, Reader.Next or Reader.Peek that is under way can return at
\* once, and each read of the stream returns the zero Token, the first
\* time and every time after.
C6_NoHang ==
    /\ [](dpc = "done" /\ cpc \in Reads =>
            ENABLED (NextToken \/ PeekPull \/ PeekBuffered \/ NextPull \/ NextBuffered))
    /\ [][dpc = "done" /\ cpc \in Reads /\ cpc' = "idle" /\ returned' # returned =>
            /\ ret' = ZeroToken
            /\ returned' = Append(returned, ZeroToken)
            /\ closedReads' = closedReads + 1
            /\ tokens' = tokens]_vars

\* After the closure Reader.Next and then Reader.Peek have each read the
\* stream and returned the zero Token.
C6_Witness ==
    /\ dpc = "done" /\ closedReads = 2
    /\ prevOp = "Next" /\ lastOp = "Peek" /\ cpc = "idle"
    /\ ret = ZeroToken

\* C7, as claimed: a NextToken that reads the closed channel does not
\* return to its caller, it panics.
C7_Aborts ==
    [][tokens.closed /\ ~ChanRecvOk(tokens) /\ cpc = "NextToken" /\ cpc' # cpc =>
            panicked']_vars

\* C7, amended: a NextToken that reads the closed channel does not panic:
\* it returns to its caller the Token {TypeError, 0, ""}, the zero value,
\* and sets lastPos to 0; the consumer of the Lexer never panics.
C7_ReturnsZero ==
    /\ [](~panicked)
    /\ [][tokens.closed /\ ~ChanRecvOk(tokens) /\ cpc = "NextToken" /\ cpc' # cpc =>
            /\ cpc' = "idle" /\ lastOp' = "NextToken"
            /\ ret' = Token(TypeError, 0, <<>>)
            /\ returned' = Append(returned, ret')
            /\ lastPos' = 0]_vars

\* NextToken has returned a token at position 1 and then, off the closed
\* channel, the zero Token: lastPos went back to 0.
C7_Witness ==
    /\ closedReads = 1 /\ lastOp = "NextToken" /\ cpc = "idle"
    /\ Len(returned) = 2 /\ returned[1].pos > 0
    /\ ret = ZeroToken /\ lastPos = 0
    /\ ~panicked

\* C8: when a state function has returned the result of Errorf, the token
\* of that Errorf is the last one sent, it has been received, it has type
\* TypeError, position base and the formatted message ("e7" for
\* Errorf("e%d", 7)); state is nil, so Run can only close the channel, and
\* nothing has panicked.
C8_ErrorfEnds ==
    errIdx # 0 =>
        /\ errIdx = Len(sent)
        /\ sent[errIdx] = Token(TypeError, base, <<101, 55>>)
        /\ received = sent
        /\ state = "nil" /\ dpc \in {"loop", "done"}
        /\ dpc = "loop" => ENABLED RunClose /\ ~ENABLED RunCall
        /\ dpc = "done" => tokens.closed
        /\ ~panicked

\* Run has closed the channel after an Emit and an Errorf whose result was
\* returned, and NextToken has returned both tokens.
C8_Witness ==
    /\ errIdx = 2 /\ tokens.closed
    /\ returned = sent /\ sent[1].type # TypeError

\* A call of Reader.Backup, as a step: the consumer is between calls before
\* and after, and the buffer, the last call or panicked has changed.
BackupStep ==
    /\ cpc = "idle" /\ cpc' = "idle"
    /\ buf' # buf \/ lastOp' # lastOp \/ prevOp' # prevOp \/ panicked' # panicked

\* C9: a Peek leaves the token it returns in the buffer and reads the
\* stream at most once, and not at all when the buffer held a token; a
\* Peek right after a Peek returns the same token and changes neither the
\* buffer nor the stream; a Next right after a Peek returns the peeked
\* token, reads nothing and leaves the buffer empty.
C9_PeekNext ==
    [][/\ cpc = "Peek" /\ cpc' = "idle" =>
            /\ buf' = <<ret'>>
            /\ Len(returned') <= Len(returned) + 1
            /\ buf # <<>> => returned' = returned /\ tokens' = tokens
       /\ cpc = "Peek" /\ cpc' = "idle" /\ lastOp = "Peek" =>
            ret' = ret /\ buf' = buf /\ returned' = returned /\ tokens' = tokens
       /\ cpc = "Next" /\ cpc' = "idle" /\ lastOp = "Peek" =>
            ret' = ret /\ buf' = <<>> /\ returned' = returned /\ tokens' = tokens]_vars

\* Two Peeks in a row have returned the one token read from the stream,
\* and Next is called.
C9_Witness ==
    /\ prevOp = "Peek" /\ lastOp = "Peek" /\ cpc = "Next"
    /\ Len(returned) = 1 /\ buf = <<returned[1]>> /\ ret = returned[1]
    /\ returned[1] = sent[1]

\* C10: the buffer never holds more than one token; Backup(t) on an empty
\* buffer puts t there without reading the stream, and the Next or Peek
\* right after it returns t and reads nothing; Backup on a full buffer
\* panics and leaves the buffer as it was.
C10_Backup ==
    /\ [](Len(buf) <= 1)
    /\ [][/\ BackupStep /\ buf = <<>> =>
               /\ ~panicked' /\ lastOp' = "Backup"
               /\ buf' = <<ret'>> /\ ret' \in BackupTokens
               /\ returned' = returned /\ tokens' = tokens
          /\ BackupStep /\ buf # <<>> => panicked' /\ buf' = buf
          /\ lastOp = "Backup" /\ cpc \in {"Next", "Peek"} /\ cpc' = "idle" =>
               ret' = ret /\ returned' = returned /\ tokens' = tokens]_vars

\* Backup(t), a Next that returned t without reading the stream, another
\* Backup, and a Backup on the full buffer that panicked.
C10_Witness ==
    /\ panicked /\ prevOp = "Next" /\ lastOp = "Backup"
    /\ buf = <<ret>> /\ returned = <<>>

\* C11: Expect reads one token per round of its loop, the buffered token
\* first and then the stream's, and keeps no token in the buffer; the
\* tokens it has read match the expected types except, possibly, the last
\* one, and ok tells whether all of them match; when it returns, either
\* ok holds and it has read as many tokens as types were given, or the
\* last token read is of another type than expected, and nothing it read
\* has gone back to the buffer or the stream.
C11_Expect ==
    /\ [](LET k == Len(expect.tokens)
              match(i) == expect.tokens[i].type = expect.types[i]
          IN  /\ k <= Len(expect.types)
              /\ \A i \in 1..(k - 1) : match(i)
              /\ expect.ok <=> \A i \in 1..k : match(i)
              /\ cpc = "Expect" /\ expect.ok =>
                     expect.rest = SubSeq(expect.types, k + 1, Len(expect.types))
              /\ cpc = "Expect" /\ ~expect.ok => expect.rest = <<>>
              /\ cpc = "idle" /\ lastOp = "Expect" =>
                     /\ expect.ok => k = Len(expect.types)
                     /\ ~expect.ok => k >= 1 /\ ~match(k))
    /\ [][/\ cpc = "Expect" /\ expect'.tokens # expect.tokens =>
               /\ Len(expect'.tokens) = Len(expect.tokens) + 1
               /\ SubSeq(expect'.tokens, 1, Len(expect.tokens)) = expect.tokens
               /\ buf' = <<>>
               /\ IF buf # <<>>
                  THEN /\ expect'.tokens[Len(expect'.tokens)] = buf[1]
                       /\ returned' = returned /\ tokens' = tokens
                  ELSE returned' =
                           Append(returned, expect'.tokens[Len(expect'.tokens)])
          /\ cpc = "Expect" /\ cpc' = "idle" =>
               /\ lastOp' = "Expect" /\ expect' = expect
               /\ buf' = buf /\ returned' = returned /\ tokens' = tokens
               /\ expect.tokens # <<>> => buf = <<>>]_vars

\* Expect(TypeUser, TypeUser) has returned two tokens and false: the token
\* that Backup had put in the buffer, and a token of type TypeEOF read from
\* the stream.
C11_Witness ==
    /\ cpc = "idle" /\ lastOp = "Expect" /\ prevOp = "Backup"
    /\ expect.types = <<TypeUser, TypeUser>> /\ ~expect.ok
    /\ Len(expect.tokens) = 2 /\ expect.tokens[2].type = TypeEOF
    /\ returned = <<expect.tokens[2]>> /\ buf = <<>>

\* C12, as claimed: a call of the scanner's Backup with no Next since the
\* last Backup, or with no Next at all (after a Peek or a failed Accept as
\* well, whose own Backup came last), panics and leaves pos where it was.
C12_BackupFatal ==
    [][LexerBackup /\ ~fresh => panicked' /\ pos' = pos]_vars

\* Next, Backup and Backup again on "a\n": the second Backup did not panic,
\* and pos is -1.
C12_Witness ==
    /\ input = <<97, 10>> /\ misuse = "double" /\ ~panicked
    /\ pos = -1 /\ width = 1 /\ base = 0

\* C13, as claimed: with Backup called at most once after each Next, in
\* every state 0 <= base <= pos <= len(input).
C13_Bounds == 0 <= base /\ base <= pos /\ pos <= Len(input)

\* Next, Ignore and Backup on "a\n": pos is below base, and nothing has
\* panicked.
C13_Witness ==
    /\ input = <<97, 10>> /\ misuse = "late" /\ ~panicked
    /\ base = 1 /\ pos = 0 /\ width = 1 /\ sent = <<>>

\* C13, what does hold: as long as every Backup has undone the Next before
\* it, called at most once after that Next and before any Emit or Ignore,
\* 0 <= base <= pos <= len(input) holds and no call has panicked.
C13_BoundsUndo ==
    misuse = "none" =>
        /\ 0 <= base /\ base <= pos /\ pos <= Len(input)
        /\ ~panicked

\* The values of the tokens sent, one after the other.
RECURSIVE ConcatValues(_)
ConcatValues(toks) ==
    IF toks = <<>> THEN <<>> ELSE Head(toks).value \o ConcatValues(Tail(toks))

\* input[0:n] without the bytes that Ignore skipped.
RECURSIVE Kept(_)
Kept(n) ==
    IF n <= 0 THEN <<>>
    ELSE IF n \in ignored THEN Kept(n - 1) ELSE Append(Kept(n - 1), input[n])

\* Where the text dealt with ends: at base, or at pos while Emit has sent
\* its token and not yet moved base.
Settled == IF dpc \in {"emit", "emitted"} THEN pos ELSE base

\* C14, as claimed: with state functions that call only Emit, Ignore, Next
\* and Backup, Backup at most once per Next, the values of the tokens sent
\* make up, in order, the input up to the end of the last token or ignored
\* span without the bytes Ignore skipped: no byte twice, none missing.
C14_Concat == ConcatValues(sent) = Kept(Settled)

\* Next, Emit, Backup, Next and Emit on "ab\ncd": the byte 'a' has been
\* emitted twice.
C14_Witness ==
    /\ input = <<97, 98, 10, 99, 100>> /\ misuse = "late" /\ ~panicked
    /\ Len(sent) = 2 /\ sent[1].value = <<97>> /\ sent[2].value = <<97>>
    /\ ignored = {}

\* C14, what does hold: the same, as long as every Backup has undone the
\* Next before it, before any Emit or Ignore; and then no byte is both
\* ignored and emitted, and what lies beyond base is neither.
C14_ConcatUndo ==
    misuse = "none" =>
        /\ ConcatValues(sent) = Kept(Settled)
        /\ Len(ConcatValues(sent)) + Cardinality(ignored) = Settled
        /\ ignored \subseteq 1..Settled

\* The positions of the tokens sent never go down.
PosAscending == \A i, j \in 1..Len(sent) : i <= j => sent[i].pos <= sent[j].pos

\* C15, as claimed: the Pos of each token that Emit or Errorf sent is at
\* least the Pos of every token sent before it.
C15_PosMonotone == PosAscending

\* Next, Ignore, Emit, Backup, Ignore and Emit on "a\n": a token at
\* position 1 and after it a token at position 0.
C15_Witness ==
    /\ input = <<97, 10>> /\ misuse = "late" /\ ~panicked
    /\ Len(sent) = 2 /\ sent[1].pos = 1 /\ sent[2].pos = 0
    /\ sent[1].type = TypeUser /\ sent[2].type = TypeUser

\* C15, what does hold: as long as every Backup has undone the Next before
\* it, before any Emit or Ignore, the Pos of the tokens sent never goes
\* down, and no token begins beyond base.
C15_PosMonotoneUndo ==
    misuse = "none" =>
        /\ PosAscending
        /\ \A i \in 1..Len(sent) : sent[i].pos <= base

\* C16: Consume(s) on a scanner whose pos lies within the input returns
\* true and moves pos forward by len(s) if and only if the input at pos
\* begins with s; otherwise it returns false and leaves pos; it never
\* changes base, width or the tokens sent, and never panics.
C16_Consume ==
    [][\A s \in ConsumeArgs :
          (Consume(s) /\ dpc = "fn" /\ 0 <= pos /\ pos <= Len(input)) =>
             LET starts == /\ pos + Len(s) <= Len(input)
                           /\ \A i \in 1..Len(s) : input[pos + i] = s[i]
             IN  /\ result' = [op |-> "Consume", val |-> starts]
                 /\ starts => pos' = pos + Len(s)
                 /\ ~starts => pos' = pos
                 /\ pos' # pos => starts /\ pos' - pos = Len(s)
                 /\ ~panicked'
                 /\ UNCHANGED <<base, width, input, sent, tokens>>]_vars

\* Consume("ab") has returned true on "ab\ncd" and moved pos from 0 to 2.
C16_Witness ==
    /\ input = <<97, 98, 10, 99, 100>> /\ result = [op |-> "Consume", val |-> TRUE]
    /\ pos = 2 /\ base = 0 /\ width = 0 /\ misuse = "none"

\* NextToken has just returned a token of the stream to the consumer.
GotToken ==
    /\ cpc = "idle" /\ lastOp = "NextToken"
    /\ returned # <<>> /\ closedReads = 0 /\ ret = returned[Len(returned)]

\* C17, as claimed: when the token the consumer has received ends right
\* after a "\n", LineNumber is the number of the line that begins there and
\* ColumnNumber is 1.
C17_LineAfter ==
    (GotToken /\ ret.value # <<>> /\ ret.value[Len(ret.value)] = 10) =>
        /\ LineNumber =
             1 + Cardinality({i \in 1..(ret.pos + Len(ret.value)) : input[i] = 10})
        /\ ColumnNumber = 1

\* C17, amended: LineNumber and ColumnNumber are, counted from 1, the line
\* and the byte column of the first byte of the token NextToken returned
\* last: lastPos is that token's Pos, LineNumber is 1 more than the "\n"
\* before it, and ColumnNumber 1 more than the bytes between the last "\n"
\* before it, or the start of the input, and it.  For "ab\ncd" they are 1
\* and 1 after the token "ab\n" and 2 and 1 after the token "cd".
C17_LineOfStart ==
    /\ lastPos = (IF returned = <<>> THEN 0 ELSE returned[Len(returned)].pos)
    /\ 0 <= lastPos /\ lastPos <= Len(input)
    /\ LineNumber = 1 + Cardinality({i \in 1..lastPos : input[i] = 10})
    /\ ColumnNumber >= 1 /\ ColumnNumber <= lastPos + 1
    /\ \A i \in (lastPos - ColumnNumber + 2)..lastPos : input[i] # 10
    /\ ColumnNumber = lastPos + 1 \/ input[lastPos - ColumnNumber + 1] = 10
    /\ (GotToken /\ ret.value = <<97, 98, 10>> /\ ret.pos = 0) =>
           LineNumber = 1 /\ ColumnNumber = 1
    /\ (GotToken /\ ret.value = <<99, 100>> /\ ret.pos = 3) =>
           LineNumber = 2 /\ ColumnNumber = 1

\* The consumer has received "ab\n" and then "cd" of "ab\ncd": LineNumber
\* is 2 and ColumnNumber is 1.
C17_Witness ==
    /\ GotToken /\ input = <<97, 98, 10, 99, 100>>
    /\ returned = <<Token(TypeUser, 0, <<97, 98, 10>>), Token(TypeUser, 3, <<99, 100>>)>>
    /\ LineNumber = 2 /\ ColumnNumber = 1 /\ misuse = "none"

\* C18, as claimed: whenever the pending token input[base:pos] exists, Len
\* returns its length, the length of Value, and never a negative number.
C18_Len ==
    [][LexerLen /\ ~SlicePanics(input, base, pos) =>
           /\ result'.op = "Len"
           /\ result'.val = Len(Value)
           /\ result'.val >= 0]_vars

\* Next and Len on "a\n": the pending token is "a" and Len has returned -1.
C18_Witness ==
    /\ input = <<97, 10>> /\ base = 0 /\ pos = 1 /\ Value = <<97>>
    /\ result = [op |-> "Len", val |-> -1] /\ ~panicked

\* C18, what does hold: Len returns base - pos, the length of Value negated,
\* and changes nothing.
C18_LenNegated ==
    [][LexerLen =>
           /\ result' = [op |-> "Len", val |-> base - pos]
           /\ (~SlicePanics(input, base, pos) => result'.val = 0 - Len(Value))
           /\ UNCHANGED <<lexerVars, tokens, panicked>>]_vars

\* A run primitive is at the test of its loop with the input used up.
RunAtEnd == dpc = "run" /\ ~panicked /\ ~NextPanics /\ pos >= Len(input)

\* C19, as claimed: AcceptRun, AcceptFuncRun and AcceptButRun always return:
\* at the end of the input the test of the loop fails, so that the loop is
\* left, and every turn of the loop before that consumes at least one byte;
\* the number counted so far is the number of bytes pos has advanced.
C19_RunsTerminate ==
    /\ RunAtEnd => ~RunTest
    /\ dpc = "run" /\ ~panicked /\ ~NextPanics /\ RunTest => NextWidth > 0
    /\ dpc = "run" /\ ~panicked => pos = call.from + call.n

\* Next and AcceptButRun("ab") on "a\n": the loop has consumed "\n", has
\* gone round once more at the end of the input (width 0), and its test
\* still holds: the state repeats for ever.
C19_Witness ==
    /\ input = <<97, 10>> /\ RunAtEnd
    /\ call = [op |-> "AcceptButRun", arg |-> <<97, 98>>, n |-> 1, from |-> 1]
    /\ pos = 2 /\ width = 0 /\ fresh
    /\ RunTest

\* C19, what does hold: AcceptRun leaves its loop at the end of the input;
\* the number a run primitive has counted is the number of bytes pos has
\* advanced since it was called, and the number it returns is that.
C19_RunCounts ==
    /\ RunAtEnd /\ call.op = "AcceptRun" => ~RunTest
    /\ dpc = "run" /\ ~panicked => pos = call.from + call.n
    /\ result.op \in {"AcceptRun", "AcceptFuncRun", "AcceptButRun"} =>
           result.val >= 0

\* C19, what does hold: a run primitive that returns has stopped at a unit
\* that does not qualify, never at the end of the input unless it is
\* AcceptRun or a function that does not hold of EOF, and returns the
\* number of bytes pos has advanced.
C19_RunReturns ==
    [][RunExit =>
           /\ result' = [op |-> call.op, val |-> pos - call.from]
           /\ pos' = pos
           /\ ~Qualifies(call.op, call.arg, NextRune)
           /\ (call.op = "AcceptButRun" => pos < Len(input))]_vars

\* C20, as claimed: Accept, AcceptFunc and AcceptBut return true if and only
\* if pos has advanced, by the one rune that Next decoded, and return false
\* with pos unchanged otherwise; at the end of the input they return false.
C20_AcceptConsumes ==
    [][\A op \in {"Accept", "AcceptFunc", "AcceptBut"} :
         \A arg \in RuneStrings \cup RuneFuncs :
           AcceptOne(op, arg) /\ ~NextPanics =>
               /\ result'.op = op
               /\ result'.val = (pos' > pos)
               /\ pos' = IF result'.val THEN pos + NextWidth ELSE pos
               /\ (pos >= Len(input) => result'.val = FALSE)]_vars

\* AcceptBut("ab") on "": it has returned true with pos still 0.
C20_Witness ==
    /\ input = <<>> /\ pos = 0 /\ width = 0 /\ ~panicked
    /\ result = [op |-> "AcceptBut", val |-> TRUE]

\* C20, what does hold: Accept returns true if and only if pos has advanced
\* by one rune, and false at the end of the input; AcceptFunc and AcceptBut
\* do so wherever there is input left, and at the end of the input leave
\* pos and return what their test says of EOF.
C20_AcceptBeforeEnd ==
    [][\A op \in {"Accept", "AcceptFunc", "AcceptBut"} :
         \A arg \in RuneStrings \cup RuneFuncs :
           AcceptOne(op, arg) /\ ~NextPanics =>
               /\ result' = [op |-> op, val |-> Qualifies(op, arg, NextRune)]
               /\ pos' = IF result'.val THEN pos + NextWidth ELSE pos
               /\ (pos < Len(input) \/ op = "Accept" =>
                       result'.val = (pos' > pos))
               /\ (pos >= Len(input) =>
                       pos' = pos /\ result'.val = Qualifies(op, arg, EOF))
               /\ (pos >= Len(input) /\ op = "AcceptBut" => result'.val)]_vars

=============================================================================
